---- MODULE Spec2Model ----
(***************************************************************************)
(* Red-Black tree based Set (package set, set.go) with its bidirectional   *)
(* Iterator.  The heap of *Node values is an arena indexed by node ids;    *)
(* NIL is the Go nil pointer.  Every handler is one action; the fixup      *)
(* loops are RECURSIVE operators that thread a record                      *)
(*   [nodes, root, fault, rots, iters, cases, trail, steps, rotOK]         *)
(* through the statements of the source in source order.  A dereference of *)
(* nil is a Go panic: it sets fault and stops the handler where it is.     *)
(***************************************************************************)
EXTENDS Integers, Sequences, FiniteSets, TLC

\* ---- bounds ------------------------------------------------------------
MaxKey == 7
MaxIterKey == 5
MaxDeepKey == 11
MaxNodes == IF MaxKey > MaxDeepKey THEN MaxKey ELSE MaxDeepKey

Keys == 1..MaxKey
Nodes == 1..MaxNodes
NIL == 0

\* ---- Color (set.go 5-10) -----------------------------------------------
Black == TRUE
Red == FALSE

\* A node slot that holds no allocated Node.
NoKey == 0
FreeNode == [key |-> NoKey, color |-> Red, left |-> NIL, right |-> NIL, parent |-> NIL]

VARIABLES nodes, root, size, it, last, fault
vars == <<nodes, root, size, it, last, fault>>

\* The caller-supplied three-way comparator: integer ordering.
compare(a, b) == IF a < b THEN -1 ELSE IF a > b THEN 1 ELSE 0

\* ---- what the properties talk about ---------------------------------------
\* The nodes of the subtree under n, by the child links alone.
RECURSIVE Subtree(_, _)
Subtree(ns, n) ==
  IF n = NIL THEN {} ELSE {n} \cup Subtree(ns, ns[n].left) \cup Subtree(ns, ns[n].right)

\* The keys of the subtree under n, left to right.
RECURSIVE InOrder(_, _)
InOrder(ns, n) ==
  IF n = NIL THEN <<>> ELSE InOrder(ns, ns[n].left) \o <<ns[n].key>> \o InOrder(ns, ns[n].right)

\* Every child of a node under r names that node as its parent, and r has
\* no parent.
LinksConsistent(ns, r) ==
  /\ r # NIL => ns[r].parent = NIL
  /\ \A n \in Subtree(ns, r) :
       /\ ns[n].left # NIL => ns[ns[n].left].parent = n
       /\ ns[n].right # NIL => ns[ns[n].right].parent = n

\* The number of child links from cur down to n, or -1 when n is not below cur.
RECURSIVE DepthOf(_, _, _)
DepthOf(ns, cur, n) ==
  IF cur = NIL THEN -1
  ELSE IF cur = n THEN 0
  ELSE LET l == DepthOf(ns, ns[cur].left, n) IN
       IF l >= 0 THEN l + 1
       ELSE LET r == DepthOf(ns, ns[cur].right, n) IN IF r >= 0 THEN r + 1 ELSE -1

\* The level of the position a fixup loop stands at: x, or the nil slot
\* under parent.
LevelOf(s, x, parent) ==
  IF x # NIL THEN DepthOf(s.nodes, s.root, x)
  ELSE IF parent = NIL THEN 0
  ELSE DepthOf(s.nodes, s.root, parent) + 1

\* ---- field assignments on the threaded record ---------------------------
\* Besides the heap and the root the record carries what the call did: the
\* rotations (rots), the loop iterations (iters), the branches taken as a set
\* (cases) and in order (trail), the levels <<from, to>> of each move of the
\* loop's node towards the root (steps), and whether every rotation so far
\* kept the key order and the links (rotOK).
SetLeft(s, n, v) == [s EXCEPT !.nodes[n].left = v]
SetRight(s, n, v) == [s EXCEPT !.nodes[n].right = v]
SetParent(s, n, v) == [s EXCEPT !.nodes[n].parent = v]
SetColor(s, n, c) == [s EXCEPT !.nodes[n].color = c]
SetKey(s, n, k) == [s EXCEPT !.nodes[n].key = k]
SetRoot(s, n) == [s EXCEPT !.root = n]
Panic(s) == [s EXCEPT !.fault = TRUE]
Mark(s, c) == [s EXCEPT !.cases = @ \cup {c}, !.trail = Append(@, c)]
Iterate(s) == [s EXCEPT !.iters = @ + 1]
Step(s, x, parent, next) ==
  [s EXCEPT !.steps = Append(@, <<LevelOf(s, x, parent), DepthOf(s.nodes, s.root, next)>>)]
Rotated(before, after) ==
  [after EXCEPT !.rots = @ + 1,
                !.rotOK = @ /\ InOrder(after.nodes, after.root) = InOrder(before.nodes, before.root)
                            /\ LinksConsistent(after.nodes, after.root)]

Start(ns, r) ==
  [nodes |-> ns, root |-> r, fault |-> FALSE, rots |-> 0, iters |-> 0, cases |-> {},
   trail |-> <<>>, steps |-> <<>>, rotOK |-> TRUE]

\* ---- rotations ----------------------------------------------------------
\* leftRotate without its last statement: x keeps its old parent.
leftRotate_staleParent(s, x) ==
  IF s.fault THEN s
  ELSE IF x = NIL THEN Panic(s)
  ELSE LET y == s.nodes[x].right IN
    IF y = NIL THEN Panic(s)
    ELSE LET yl == s.nodes[y].left
             s1 == SetRight(s, x, yl)
             s2 == IF yl # NIL THEN SetParent(s1, yl, x) ELSE s1
             xp == s2.nodes[x].parent
             s3 == SetParent(s2, y, xp)
             s4 == IF xp = NIL THEN SetRoot(s3, y)
                   ELSE IF x = s3.nodes[xp].left THEN SetLeft(s3, xp, y)
                   ELSE SetRight(s3, xp, y)
         IN Rotated(s, SetLeft(s4, y, x))

leftRotate(s, x) ==
  IF s.fault THEN s
  ELSE IF x = NIL THEN Panic(s)
  ELSE LET y == s.nodes[x].right IN
    IF y = NIL THEN Panic(s)
    ELSE LET yl == s.nodes[y].left
             s1 == SetRight(s, x, yl)
             s2 == IF yl # NIL THEN SetParent(s1, yl, x) ELSE s1
             xp == s2.nodes[x].parent
             s3 == SetParent(s2, y, xp)
             s4 == IF xp = NIL THEN SetRoot(s3, y)
                   ELSE IF x = s3.nodes[xp].left THEN SetLeft(s3, xp, y)
                   ELSE SetRight(s3, xp, y)
             s5 == SetLeft(s4, y, x)
             s6 == SetParent(s5, x, y)
         IN Rotated(s, s6)

\* rightRotate without its last statement: x keeps its old parent.
rightRotate_staleParent(s, x) ==
  IF s.fault THEN s
  ELSE IF x = NIL THEN Panic(s)
  ELSE LET y == s.nodes[x].left IN
    IF y = NIL THEN Panic(s)
    ELSE LET yr == s.nodes[y].right
             s1 == SetLeft(s, x, yr)
             s2 == IF yr # NIL THEN SetParent(s1, yr, x) ELSE s1
             xp == s2.nodes[x].parent
             s3 == SetParent(s2, y, xp)
             s4 == IF xp = NIL THEN SetRoot(s3, y)
                   ELSE IF x = s3.nodes[xp].right THEN SetRight(s3, xp, y)
                   ELSE SetLeft(s3, xp, y)
         IN Rotated(s, SetRight(s4, y, x))

rightRotate(s, x) ==
  IF s.fault THEN s
  ELSE IF x = NIL THEN Panic(s)
  ELSE LET y == s.nodes[x].left IN
    IF y = NIL THEN Panic(s)
    ELSE LET yr == s.nodes[y].right
             s1 == SetLeft(s, x, yr)
             s2 == IF yr # NIL THEN SetParent(s1, yr, x) ELSE s1
             xp == s2.nodes[x].parent
             s3 == SetParent(s2, y, xp)
             s4 == IF xp = NIL THEN SetRoot(s3, y)
                   ELSE IF x = s3.nodes[xp].right THEN SetRight(s3, xp, y)
                   ELSE SetLeft(s3, xp, y)
             s5 == SetRight(s4, y, x)
             s6 == SetParent(s5, x, y)
         IN Rotated(s, s6)

\* ---- insertFixup --------------------------------------------------------
\* The tail without line 262 / 278: the parent stays Red.
insertFixupTail_parentStaysRed(s, z, dir) ==
  IF s.fault THEN s
  ELSE LET zp == s.nodes[z].parent IN
    IF zp = NIL THEN Panic(s)
    ELSE LET zpp == s.nodes[zp].parent
         IN IF zpp = NIL THEN Panic(s)
            ELSE LET s2 == SetColor(s, zpp, Red)
                 IN IF dir = "L" THEN rightRotate(s2, zpp) ELSE leftRotate(s2, zpp)

\* Lines 262-264 / 278-280: recolour parent and grandparent, rotate at the
\* grandparent.  dir = "L" when z.parent is a left child (rightRotate).
insertFixupTail(s, z, dir) ==
  IF s.fault THEN s
  ELSE LET zp == s.nodes[z].parent IN
    IF zp = NIL THEN Panic(s)
    ELSE LET s1 == SetColor(s, zp, Black)
             zpp == s1.nodes[zp].parent
         IN IF zpp = NIL THEN Panic(s1)
            ELSE LET s2 == SetColor(s1, zpp, Red)
                 IN IF dir = "L" THEN rightRotate(s2, zpp) ELSE leftRotate(s2, zpp)

\* The recolouring that leaves the uncle Red.
insertFixupRecolor_uncleStaysRed(s, zp, y, zpp) ==
  SetColor(SetColor(s, zp, Black), zpp, Red)

\* Lines 253-256 / 269-272: red uncle y, push the violation up.
insertFixupRecolor(s, zp, y, zpp) ==
  SetColor(SetColor(SetColor(s, zp, Black), y, Black), zpp, Red)

\* Case B that goes on from the parent instead of the grandparent.
recolorNext_parent(s, z) == s.nodes[z].parent

\* Lines 256 / 272: z = z.parent.parent.
recolorNext(s, z) == s.nodes[s.nodes[z].parent].parent

\* insertFixup without its last statement.
blackenRoot_skipped(s) == s

\* Line 284: s.root.color = Black.
blackenRoot(s) ==
  IF s.root = NIL THEN Panic(s) ELSE SetColor(s, s.root, Black)

RECURSIVE insertFixup(_, _)
insertFixup(s, z) ==
  IF s.fault THEN s
  ELSE IF z = NIL THEN Panic(s)
  ELSE LET zp == s.nodes[z].parent IN
    IF zp # NIL /\ s.nodes[zp].color = Red
    THEN LET zpp == s.nodes[zp].parent
             t == Iterate(s)
         IN IF zpp = NIL THEN Panic(t)
            ELSE IF zp = t.nodes[zpp].left
            THEN LET y == t.nodes[zpp].right IN
                 IF y # NIL /\ t.nodes[y].color = Red
                 THEN insertFixup(Step(Mark(insertFixupRecolor(t, zp, y, zpp), "insB_L"), z, zp, recolorNext(t, z)),
                                  recolorNext(t, z))
                 ELSE IF z = t.nodes[zp].right
                      THEN insertFixup(insertFixupTail(leftRotate(Mark(t, "insC_L"), zp), zp, "L"), zp)
                      ELSE insertFixup(insertFixupTail(Mark(t, "insD_L"), z, "L"), z)
            ELSE LET y == t.nodes[zpp].left IN
                 IF y # NIL /\ t.nodes[y].color = Red
                 THEN insertFixup(Step(Mark(insertFixupRecolor(t, zp, y, zpp), "insB_R"), z, zp, recolorNext(t, z)),
                                  recolorNext(t, z))
                 ELSE IF z = t.nodes[zp].left
                      THEN insertFixup(insertFixupTail(rightRotate(Mark(t, "insC_R"), zp), zp, "R"), zp)
                      ELSE insertFixup(insertFixupTail(Mark(t, "insD_R"), z, "R"), z)
    ELSE blackenRoot(s)

\* ---- traversal ----------------------------------------------------------
\* minimum/maximum/successor/predecessor return a node, NIL, or PANIC when
\* the walk dereferences nil.
PANIC == -1

RECURSIVE minimum(_, _)
minimum(ns, x) ==
  IF x = NIL THEN PANIC
  ELSE IF ns[x].left # NIL THEN minimum(ns, ns[x].left) ELSE x

RECURSIVE maximum(_, _)
maximum(ns, x) ==
  IF x = NIL THEN PANIC
  ELSE IF ns[x].right # NIL THEN maximum(ns, ns[x].right) ELSE x

\* The upward walk of successor with predecessor's test.
RECURSIVE successorUp_wrongSide(_, _, _)
successorUp_wrongSide(ns, x, y) ==
  IF y # NIL /\ x = ns[y].left THEN successorUp_wrongSide(ns, y, ns[y].parent) ELSE y

\* Lines 305-310: the upward walk of successor.
RECURSIVE successorUp(_, _, _)
successorUp(ns, x, y) ==
  IF y # NIL /\ x = ns[y].right THEN successorUp(ns, y, ns[y].parent) ELSE y

successor(ns, x) ==
  IF x = NIL THEN PANIC
  ELSE IF ns[x].right # NIL THEN minimum(ns, ns[x].right)
  ELSE successorUp(ns, x, ns[x].parent)

\* The upward walk of predecessor with successor's test.
RECURSIVE predecessorUp_wrongSide(_, _, _)
predecessorUp_wrongSide(ns, x, y) ==
  IF y # NIL /\ x = ns[y].right THEN predecessorUp_wrongSide(ns, y, ns[y].parent) ELSE y

\* Lines 317-322: the upward walk of predecessor.
RECURSIVE predecessorUp(_, _, _)
predecessorUp(ns, x, y) ==
  IF y # NIL /\ x = ns[y].left THEN predecessorUp(ns, y, ns[y].parent) ELSE y

predecessor(ns, x) ==
  IF x = NIL THEN PANIC
  ELSE IF ns[x].left # NIL THEN maximum(ns, ns[x].left)
  ELSE predecessorUp(ns, x, ns[x].parent)

\* ---- deleteFixup --------------------------------------------------------
IsBlackOrNil(s, n) == n = NIL \/ s.nodes[n].color = Black

\* Case 1 that recomputes w from the wrong side of parent.
delRedSiblingL_wrongSibling(s, parent, w) ==
  IF s.nodes[w].color = Red
  THEN LET s1 == SetColor(s, w, Black)
           s2 == SetColor(s1, parent, Red)
           s3 == leftRotate(Mark(s2, "del1_L"), parent)
       IN [s |-> s3, w |-> s3.nodes[parent].left]
  ELSE [s |-> s, w |-> w]

\* Lines 364-369: Case 1, x on the left; yields the state and the new w.
delRedSiblingL(s, parent, w) ==
  IF s.nodes[w].color = Red
  THEN LET s1 == SetColor(s, w, Black)
           s2 == SetColor(s1, parent, Red)
           s3 == leftRotate(Mark(s2, "del1_L"), parent)
       IN [s |-> s3, w |-> s3.nodes[parent].right]
  ELSE [s |-> s, w |-> w]

\* Lines 394-399: Case 1, x on the right.
delRedSiblingR(s, parent, w) ==
  IF s.nodes[w].color = Red
  THEN LET s1 == SetColor(s, w, Black)
           s2 == SetColor(s1, parent, Red)
           s3 == rightRotate(Mark(s2, "del1_R"), parent)
       IN [s |-> s3, w |-> s3.nodes[parent].left]
  ELSE [s |-> s, w |-> w]

\* Lines 376-383: Case 3, x on the left.
delNearRedL(s, parent, w) ==
  IF IsBlackOrNil(s, s.nodes[w].right)
  THEN LET wl == s.nodes[w].left
           s1 == IF wl # NIL THEN SetColor(s, wl, Black) ELSE s
           s2 == SetColor(s1, w, Red)
           s3 == rightRotate(Mark(s2, "del3_L"), w)
       IN [s |-> s3, w |-> s3.nodes[parent].right]
  ELSE [s |-> s, w |-> w]

\* Lines 406-413: Case 3, x on the right.
delNearRedR(s, parent, w) ==
  IF IsBlackOrNil(s, s.nodes[w].left)
  THEN LET wr == s.nodes[w].right
           s1 == IF wr # NIL THEN SetColor(s, wr, Black) ELSE s
           s2 == SetColor(s1, w, Red)
           s3 == leftRotate(Mark(s2, "del3_R"), w)
       IN [s |-> s3, w |-> s3.nodes[parent].left]
  ELSE [s |-> s, w |-> w]

\* Case 4 that leaves w its own colour.
delFarRedL_keepsColor(s, parent, w) ==
  IF s.fault THEN s
  ELSE IF w = NIL THEN Panic(s)
  ELSE LET s2 == SetColor(s, parent, Black)
           wr == s2.nodes[w].right
           s3 == IF wr # NIL THEN SetColor(s2, wr, Black) ELSE s2
       IN leftRotate(Mark(s3, "del4_L"), parent)

\* Lines 384-390: Case 4, x on the left.
delFarRedL(s, parent, w) ==
  IF s.fault THEN s
  ELSE IF w = NIL THEN Panic(s)
  ELSE LET s1 == SetColor(s, w, s.nodes[parent].color)
           s2 == SetColor(s1, parent, Black)
           wr == s2.nodes[w].right
           s3 == IF wr # NIL THEN SetColor(s2, wr, Black) ELSE s2
       IN leftRotate(Mark(s3, "del4_L"), parent)

\* Lines 414-420: Case 4, x on the right.
delFarRedR(s, parent, w) ==
  IF s.fault THEN s
  ELSE IF w = NIL THEN Panic(s)
  ELSE LET s1 == SetColor(s, w, s.nodes[parent].color)
           s2 == SetColor(s1, parent, Black)
           wl == s2.nodes[w].left
           s3 == IF wl # NIL THEN SetColor(s2, wl, Black) ELSE s2
       IN rightRotate(Mark(s3, "del4_R"), parent)

RECURSIVE deleteFixup(_, _, _)
deleteFixup(s, x, parent) ==
  IF s.fault THEN s
  ELSE IF x # s.root /\ IsBlackOrNil(s, x)
  THEN LET t == Iterate(s) IN
    IF parent = NIL THEN Panic(t)
    ELSE IF x = t.nodes[parent].left
    THEN LET w0 == t.nodes[parent].right IN
      IF w0 = NIL THEN Panic(t)
      ELSE LET a == delRedSiblingL(t, parent, w0) IN
        IF a.s.fault THEN a.s
        ELSE IF a.w = NIL THEN Panic(a.s)
        ELSE IF IsBlackOrNil(a.s, a.s.nodes[a.w].left) /\ IsBlackOrNil(a.s, a.s.nodes[a.w].right)
        THEN deleteFixup(Step(Mark(SetColor(a.s, a.w, Red), "del2_L"), x, parent, parent),
                         parent, a.s.nodes[parent].parent)
        ELSE LET b == delNearRedL(a.s, parent, a.w)
                 c == delFarRedL(b.s, parent, b.w)
             IN deleteFixup(c, c.root, parent)
    ELSE LET w0 == t.nodes[parent].left IN
      IF w0 = NIL THEN Panic(t)
      ELSE LET a == delRedSiblingR(t, parent, w0) IN
        IF a.s.fault THEN a.s
        ELSE IF a.w = NIL THEN Panic(a.s)
        ELSE IF IsBlackOrNil(a.s, a.s.nodes[a.w].right) /\ IsBlackOrNil(a.s, a.s.nodes[a.w].left)
        THEN deleteFixup(Step(Mark(SetColor(a.s, a.w, Red), "del2_R"), x, parent, parent),
                         parent, a.s.nodes[parent].parent)
        ELSE LET b == delNearRedR(a.s, parent, a.w)
                 c == delFarRedR(b.s, parent, b.w)
             IN deleteFixup(c, c.root, parent)
  ELSE IF x # NIL THEN SetColor(s, x, Black) ELSE s

\* ---- delete -------------------------------------------------------------
\* Lines 343-349: x takes y's place under y's parent.
splice(s, y, x, yp) ==
  IF yp = NIL THEN SetRoot(s, x)
  ELSE IF y = s.nodes[yp].left THEN SetLeft(s, yp, x)
  ELSE SetRight(s, yp, x)

\* delete that splices the successor out and forgets its key.
copyKey_skipped(s, z, y) == s

\* Lines 351-353: the successor's key moves into z.
copyKey(s, z, y) ==
  IF y # z THEN SetKey(s, z, s.nodes[y].key) ELSE s

\* Which node delete found: the root or not, and how many children it has.
shapeOf(s, z, y, x) ==
  {IF y # z THEN "two" ELSE IF x # NIL THEN "one" ELSE "leaf"}
    \cup (IF z = s.root THEN {"root"} ELSE {})
    \cup (IF s.nodes[y].color = Black THEN {"blackY"} ELSE {"redY"})

delete(s, z) ==
  IF z = NIL THEN Panic(s)
  ELSE LET y == IF s.nodes[z].left = NIL \/ s.nodes[z].right = NIL THEN z
                ELSE successor(s.nodes, z)
       IN IF y = NIL \/ y = PANIC THEN Panic(s)
          ELSE LET x == IF s.nodes[y].left # NIL THEN s.nodes[y].left ELSE s.nodes[y].right
                   yp == s.nodes[y].parent
                   s1 == IF x # NIL THEN SetParent(s, x, yp) ELSE s
                   s2 == splice(s1, y, x, yp)
                   s3 == copyKey(s2, z, y)
                   s4 == [s3 EXCEPT !.cases = @ \cup shapeOf(s, z, y, x)]
               IN IF s4.nodes[y].color = Black THEN deleteFixup(s4, x, yp) ELSE s4

\* ---- the Go heap --------------------------------------------------------
\* A *Node is an opaque address: the program can only compare two of them.
\* The arena therefore keeps the live nodes (those a pointer chain from the
\* set's root or from the iterator reaches) in the slots 1..n, numbered in
\* the order a walk from the root and then from the iterator meets them, and
\* every pointer is renamed with them; the other slots are reclaimed.
Range(seq) == {seq[i] : i \in 1..Len(seq)}

RECURSIVE Visit(_, _, _)
Visit(ns, n, seq) ==
  IF n = NIL \/ n \in Range(seq) THEN seq
  ELSE Visit(ns, ns[n].parent, Visit(ns, ns[n].right, Visit(ns, ns[n].left, Append(seq, n))))

Order(ns, r, itn) == Visit(ns, itn, Visit(ns, r, <<>>))

Live(ns, r, itn) == Range(Order(ns, r, itn))

Renamed(order, n) == IF n = NIL THEN NIL ELSE CHOOSE i \in 1..Len(order) : order[i] = n

Collect(ns, r, itn) ==
  LET order == Order(ns, r, itn) IN
  [nodes |-> [i \in Nodes |->
                IF i <= Len(order)
                THEN LET o == ns[order[i]] IN
                     [key |-> o.key, color |-> o.color,
                      left |-> Renamed(order, o.left),
                      right |-> Renamed(order, o.right),
                      parent |-> Renamed(order, o.parent)]
                ELSE FreeNode],
   root |-> Renamed(order, r),
   node |-> Renamed(order, itn)]

FreeSlots(ns, r, itn) == Nodes \ Live(ns, r, itn)

NewNode(ns, r, itn) ==
  LET free == FreeSlots(ns, r, itn) IN CHOOSE n \in free : \A m \in free : n <= m

\* ---- descent shared by Insert, Contains and Remove -----------------------
\* The node holding key, or NIL (loops at lines 102-111 and 118-129).
RECURSIVE Find(_, _, _)
Find(ns, node, key) ==
  IF node = NIL THEN NIL
  ELSE LET cmp == compare(key, ns[node].key) IN
    IF cmp = 0 THEN node
    ELSE IF cmp < 0 THEN Find(ns, ns[node].left, key)
    ELSE Find(ns, ns[node].right, key)

\* Insert's loop without the test for an equal key.
RECURSIVE InsertParent_noEqual(_, _, _, _)
InsertParent_noEqual(ns, node, parent, key) ==
  IF node = NIL THEN parent
  ELSE IF compare(key, ns[node].key) < 0 THEN InsertParent_noEqual(ns, ns[node].left, node, key)
  ELSE InsertParent_noEqual(ns, ns[node].right, node, key)

\* The last node visited by Insert's loop (lines 70-80), or NIL on a duplicate.
RECURSIVE InsertParent(_, _, _, _)
InsertParent(ns, node, parent, key) ==
  IF node = NIL THEN parent
  ELSE LET cmp == compare(key, ns[node].key) IN
    IF cmp = 0 THEN NIL
    ELSE IF cmp < 0 THEN InsertParent(ns, ns[node].left, node, key)
    ELSE InsertParent(ns, ns[node].right, node, key)

\* ---- observers ----------------------------------------------------------
Contains(ns, r, key) == Find(ns, r, key) # NIL
Size == size
IsEmpty == size = 0
Value(ns, i) == IF i.node = NIL THEN NoKey ELSE ns[i.node].key
Valid(i) == i.node # NIL

\* ---- state --------------------------------------------------------------
TheSet == 1
NoIterator == [node |-> NIL, set |-> NIL, reverse |-> FALSE]
Done(op, key, ret, s) ==
  [op |-> op, key |-> key, ret |-> ret, rots |-> s.rots, iters |-> s.iters, cases |-> s.cases,
   trail |-> s.trail, steps |-> s.steps, rotOK |-> s.rotOK]
Bool(b) == IF b THEN "true" ELSE "false"

Init ==
  /\ nodes = [n \in Nodes |-> FreeNode]
  /\ root = NIL
  /\ size = 0
  /\ it = NoIterator
  /\ fault = FALSE
  /\ last = Done("NewSet", NoKey, "none", Start(nodes, NIL))

\* The state a handler leaves: the threaded record s, the iterator's node
\* itn, the size sz and the record of the call.
Finish(s, itn, sz, op, key, ret) ==
  LET c == Collect(s.nodes, s.root, itn) IN
  /\ nodes' = c.nodes
  /\ root' = c.root
  /\ it' = [it EXCEPT !.node = c.node]
  /\ size' = sz
  /\ fault' = s.fault
  /\ last' = Done(op, key, IF s.fault THEN "panic" ELSE ret, s)

\* ---- Set operations -----------------------------------------------------
\* attach with the two sides exchanged.
attach_swapped(s, parent, newNode, key) ==
  IF compare(key, s.nodes[parent].key) < 0
  THEN SetRight(s, parent, newNode)
  ELSE SetLeft(s, parent, newNode)

\* attach without the comparison: always the right slot.
attach_alwaysRight(s, parent, newNode, key) ==
  SetRight(s, parent, newNode)

\* Lines 88-92: the new node goes under parent on the side of its key.
attach(s, parent, newNode, key) ==
  IF compare(key, s.nodes[parent].key) < 0
  THEN SetLeft(s, parent, newNode)
  ELSE SetRight(s, parent, newNode)

\* Lines 57-97 on the heap ns with root r; itn is the node an iterator
\* holds, which the allocation must not reuse.  The result is the threaded
\* record and the value returned.
insert(ns, r, itn, key) ==
  IF r = NIL
  THEN LET n == NewNode(ns, r, itn)
       IN [s |-> Start([ns EXCEPT ![n] = [FreeNode EXCEPT !.key = key, !.color = Black]], n),
           ret |-> TRUE]
  ELSE LET parent == InsertParent(ns, r, NIL, key) IN
    IF parent = NIL
    THEN [s |-> Start(ns, r), ret |-> FALSE]
    ELSE LET newNode == NewNode(ns, r, itn)
             s0 == Start([ns EXCEPT ![newNode] =
                            [FreeNode EXCEPT !.key = key, !.color = Red, !.parent = parent]], r)
             s1 == attach(s0, parent, newNode, key)
         IN [s |-> insertFixup(s1, newNode), ret |-> TRUE]

Insert(key) ==
  /\ ~fault
  /\ IF Contains(nodes, root, key) THEN TRUE ELSE FreeSlots(nodes, root, it.node) # {}
  /\ LET o == insert(nodes, root, it.node, key)
     IN Finish(o.s, it.node, IF o.ret THEN size + 1 ELSE size, "Insert", key, Bool(o.ret))

\* Remove that decrements size whether or not it found the key.
Remove_alwaysShrinks(key) ==
  /\ ~fault
  /\ LET node == Find(nodes, root, key) IN
     IF node = NIL
     THEN Finish(Start(nodes, root), it.node, size - 1, "Remove", key, "false")
     ELSE LET s1 == delete(Start(nodes, root), node) IN
          Finish(s1, it.node, IF s1.fault THEN size ELSE size - 1, "Remove", key, "true")

Remove(key) ==
  /\ ~fault
  /\ LET node == Find(nodes, root, key) IN
     IF node = NIL
     THEN Finish(Start(nodes, root), it.node, size, "Remove", key, "false")
     ELSE LET s1 == delete(Start(nodes, root), node) IN
          Finish(s1, it.node, IF s1.fault THEN size ELSE size - 1, "Remove", key, "true")

\* Clear that drops the root and keeps the count.
Clear_keepsSize ==
  /\ ~fault
  /\ Finish(Mark(Start(nodes, NIL), IF root = NIL THEN "empty" ELSE "nonempty"),
            it.node, size, "Clear", NoKey, "none")

\* Clear that resets the count and keeps the root.
Clear_keepsRoot ==
  /\ ~fault
  /\ Finish(Mark(Start(nodes, root), IF root = NIL THEN "empty" ELSE "nonempty"),
            it.node, 0, "Clear", NoKey, "none")

\* The call record notes whether the set held anything.
Clear ==
  /\ ~fault
  /\ Finish(Mark(Start(nodes, NIL), IF root = NIL THEN "empty" ELSE "nonempty"),
            it.node, 0, "Clear", NoKey, "none")

\* ---- Iterator -----------------------------------------------------------
\* A constructor or a step of the iterator: its new node n (PANIC when the
\* walk dereferenced nil, which leaves the iterator as it was).
\* The call record notes whether a step was taken from a node or from nil.
Moved(i, n, op, ret) ==
  LET s == IF op \in {"Next", "Prev"}
           THEN Mark(Start(nodes, root), IF i.node = NIL THEN "sentinel" ELSE "positioned")
           ELSE Start(nodes, root)
  IN IF n = PANIC
     THEN /\ fault' = TRUE
          /\ last' = Done(op, NoKey, "panic", s)
          /\ UNCHANGED <<nodes, root, size, it>>
     ELSE LET c == Collect(nodes, root, n) IN
          /\ nodes' = c.nodes
          /\ root' = c.root
          /\ it' = [i EXCEPT !.node = c.node]
          /\ last' = Done(op, NoKey, ret, s)
          /\ UNCHANGED <<size, fault>>

\* Lines 135-141 and 151-158: where Begin() and RBegin() start.
BeginNode(ns, r) == IF r = NIL THEN NIL ELSE minimum(ns, r)
RBeginNode(ns, r) == IF r = NIL THEN NIL ELSE maximum(ns, r)

\* Lines 183-187: the node Next() moves a positioned iterator to.
NextNode(ns, i) ==
  IF i.reverse THEN predecessor(ns, i.node) ELSE successor(ns, i.node)

\* Lines 179-189: the node Next() leaves the iterator at; nil stays nil.
NextOf(ns, i) == IF i.node = NIL THEN NIL ELSE NextNode(ns, i)

\* Prev() whose sentinel branch takes the extremes the wrong way round.
PrevNode_swapped(ns, r, i) ==
  IF i.node = NIL
  THEN IF i.reverse THEN maximum(ns, r) ELSE minimum(ns, r)
  ELSE IF i.reverse THEN successor(ns, i.node) ELSE predecessor(ns, i.node)

\* Lines 193-206: the node Prev() moves an iterator to.
PrevNode(ns, r, i) ==
  IF i.node = NIL
  THEN IF i.reverse THEN minimum(ns, r) ELSE maximum(ns, r)
  ELSE IF i.reverse THEN successor(ns, i.node) ELSE predecessor(ns, i.node)

Begin ==
  /\ ~fault
  /\ Moved([node |-> NIL, set |-> TheSet, reverse |-> FALSE], BeginNode(nodes, root), "Begin", "none")

End ==
  /\ ~fault
  /\ Moved([node |-> NIL, set |-> TheSet, reverse |-> FALSE], NIL, "End", "none")

RBegin ==
  /\ ~fault
  /\ Moved([node |-> NIL, set |-> TheSet, reverse |-> TRUE], RBeginNode(nodes, root), "RBegin", "none")

REnd ==
  /\ ~fault
  /\ Moved([node |-> NIL, set |-> TheSet, reverse |-> TRUE], NIL, "REnd", "none")

\* Next() that re-enters the range from nil, the way Prev() does.
IterNext_wraps ==
  /\ ~fault
  /\ it.set # NIL
  /\ IF it.node = NIL
     THEN LET n == IF it.reverse THEN RBeginNode(nodes, root) ELSE BeginNode(nodes, root)
          IN Moved(it, n, "Next", Bool(n # NIL))
     ELSE LET n == NextNode(nodes, it) IN Moved(it, n, "Next", Bool(n # NIL))

IterNext ==
  /\ ~fault
  /\ it.set # NIL
  /\ LET n == NextOf(nodes, it) IN Moved(it, n, "Next", Bool(n # NIL))

IterPrev ==
  /\ ~fault
  /\ it.set # NIL
  /\ LET n == PrevNode(nodes, root, it) IN Moved(it, n, "Prev", Bool(n # NIL))

\* ---- specifications ------------------------------------------------------
\* The Set alone: no iterator is ever taken.
Next ==
  \/ \E key \in Keys : Insert(key)
  \/ \E key \in Keys : Remove(key)
  \/ Clear

Spec == Init /\ [][Next]_vars

\* The Set with one iterator over it.  The caller keeps the obligation of the
\* Iterator's lifecycle: it removes elements or clears the set only while its
\* iterator holds no node (End() and REnd() give such an iterator back at
\* any time).  Insert runs under a positioned iterator as well.
IterKeys == 1..MaxIterKey
Unpositioned == it.node = NIL

NextIter ==
  \/ \E key \in IterKeys : Insert(key)
  \/ \E key \in IterKeys : Unpositioned /\ Remove(key)
  \/ Unpositioned /\ Clear
  \/ Begin
  \/ End
  \/ RBegin
  \/ REnd
  \/ IterNext
  \/ IterPrev

SpecIter == Init /\ [][NextIter]_vars

\* One call on a larger set.  The set is loaded with keys in ascending or in
\* descending order, at most one key of the run being left out; an iterator
\* is then taken and stepped forward, and one Insert or Remove is made (Remove
\* under the same obligation as above).  The Inserts of the load carry the
\* mark "load" in their call record.
DeepKeys == 1..MaxDeepKey
Loading == last.op = "NewSet" \/ "load" \in last.cases
Untouched == Loading \/ last.op \in {"Begin", "RBegin", "Next"}

Ascends(key) == (\A n \in Subtree(nodes, root) : compare(key, nodes[n].key) > 0) /\ key <= size + 2
Descends(key) ==
  (\A n \in Subtree(nodes, root) : compare(key, nodes[n].key) < 0) /\ MaxDeepKey + 1 - key <= size + 2

Load(key) ==
  /\ ~fault
  /\ Loading
  /\ IF Ascends(key) THEN TRUE ELSE Descends(key)
  /\ LET o == insert(nodes, root, it.node, key)
     IN Finish(Mark(o.s, "load"), it.node, size + 1, "Insert", key, Bool(o.ret))

NextDeep ==
  \/ \E key \in DeepKeys : Load(key)
  \/ \E key \in DeepKeys : Untouched /\ Insert(key)
  \/ \E key \in DeepKeys : Untouched /\ Unpositioned /\ Remove(key)
  \/ Untouched /\ Begin
  \/ Untouched /\ RBegin
  \/ Untouched /\ IterNext

SpecDeep == Init /\ [][NextDeep]_vars

\* ---- what the properties talk about (continued) ---------------------------
\* The numbers of Black nodes met on the paths from n down to a nil slot.
RECURSIVE BlackHeights(_, _)
BlackHeights(ns, n) ==
  IF n = NIL THEN {0}
  ELSE LET b == IF ns[n].color = Black THEN 1 ELSE 0
       IN {h + b : h \in BlackHeights(ns, ns[n].left) \cup BlackHeights(ns, ns[n].right)}

KeySet(ns, r) == {ns[n].key : n \in Subtree(ns, r)}

\* C1: in every reachable state the keys left of a node are smaller than its
\* key and the keys right of it larger, and the in-order key sequence is
\* strictly increasing under the comparator (no key twice).
C1_StrictBST ==
  /\ \A n \in Subtree(nodes, root) :
       /\ \A m \in Subtree(nodes, nodes[n].left) : compare(nodes[m].key, nodes[n].key) < 0
       /\ \A m \in Subtree(nodes, nodes[n].right) : compare(nodes[m].key, nodes[n].key) > 0
  /\ LET io == InOrder(nodes, root)
     IN \A i \in 1..(Len(io) - 1) : compare(io[i], io[i + 1]) < 0

\* A Remove of a node with two children (successor's key copied) left a tree
\* with keys on both sides of the root.
C1_Witness ==
  /\ last.op = "Remove" /\ last.ret = "true" /\ "two" \in last.cases
  /\ root # NIL /\ nodes[root].left # NIL /\ nodes[root].right # NIL
  /\ size >= 4

\* C2: after every completed Insert or Remove all paths from the root to a
\* nil child slot pass through the same number of Black nodes.
C2_BlackHeightUniform ==
  (~fault /\ last.op \in {"Insert", "Remove"}) => Cardinality(BlackHeights(nodes, root)) = 1

\* A Remove spliced out a Black node and the deleteFixup loop ran.
C2_Witness ==
  /\ last.op = "Remove" /\ last.ret = "true"
  /\ "blackY" \in last.cases /\ last.iters >= 1 /\ last.rots >= 1
  /\ size >= 3

\* C3: after every completed Insert or Remove no Red node has a Red child.
C3_NoRedRed ==
  (~fault /\ last.op \in {"Insert", "Remove"}) =>
    \A n \in Subtree(nodes, root) :
      nodes[n].color = Red =>
        /\ nodes[n].left # NIL => nodes[nodes[n].left].color = Black
        /\ nodes[n].right # NIL => nodes[nodes[n].right].color = Black

\* An Insert whose fixup recoloured under a Red uncle below the root: the
\* grandparent is now a Red node with two Black children.
C3_Witness ==
  /\ last.op = "Insert" /\ last.ret = "true"
  /\ last.cases \cap {"insB_L", "insB_R"} # {}
  /\ \E n \in Subtree(nodes, root) :
       /\ nodes[n].color = Red
       /\ nodes[n].left # NIL /\ nodes[n].right # NIL
       /\ Contains(nodes, nodes[n].left, last.key) \/ Contains(nodes, nodes[n].right, last.key)

\* C4: after every completed Insert, Remove or Clear the root is absent or
\* Black, also when Remove deleted the root node itself.
C4_RootBlack ==
  (~fault /\ last.op \in {"Insert", "Remove", "Clear"}) =>
    (root = NIL \/ nodes[root].color = Black)

\* A Remove deleted the root node, which had two children, and a root remains.
C4_Witness ==
  /\ last.op = "Remove" /\ last.ret = "true"
  /\ {"root", "two"} \subseteq last.cases
  /\ root # NIL

\* C5: Remove(k) of a present key returns true, decreases Size() by one,
\* makes Contains(k) false and leaves Contains(j) as it was for every other j.
C5_RemovePresent ==
  [][(last'.op = "Remove" /\ Contains(nodes, root, last'.key)) =>
       /\ last'.ret = "true"
       /\ size' = size - 1
       /\ ~Contains(nodes', root', last'.key)
       /\ \A j \in Keys \ {last'.key} :
            Contains(nodes', root', j) = Contains(nodes, root, j)]_vars

\* A present key was removed from a node with two children, others remain.
C5_Witness ==
  /\ last.op = "Remove" /\ last.ret = "true" /\ "two" \in last.cases
  /\ ~Contains(nodes, root, last.key)
  /\ size >= 2

\* C6: Insert(k) of an absent key returns true, increases Size() by one,
\* makes Contains(k) true and leaves Contains(j) as it was for every other j.
C6_InsertAbsent ==
  [][(last'.op = "Insert" /\ ~Contains(nodes, root, last'.key)) =>
       /\ last'.ret = "true"
       /\ size' = size + 1
       /\ Contains(nodes', root', last'.key)
       /\ \A j \in Keys \ {last'.key} :
            Contains(nodes', root', j) = Contains(nodes, root, j)]_vars

\* An absent key was inserted and the fixup rotated the tree.
C6_Witness ==
  /\ last.op = "Insert" /\ last.ret = "true" /\ last.rots >= 1
  /\ Contains(nodes, root, last.key)
  /\ size >= 4

\* C7: Size() is the number of nodes reachable from the root and IsEmpty()
\* holds exactly when there is no root.
C7_SizeCountsNodes ==
  /\ Size = Cardinality(Subtree(nodes, root))
  /\ IsEmpty <=> root = NIL

\* The last key of a set was removed: the set is empty again, with no root.
C7_Witness ==
  /\ last.op = "Remove" /\ last.ret = "true"
  /\ IsEmpty /\ root = NIL

\* C10: Remove(k) of an absent key returns false and changes neither the
\* tree's shape, nor a node's key or colour, nor the root, nor Size().
C10_RemoveAbsent ==
  [][(last'.op = "Remove" /\ ~Contains(nodes, root, last'.key)) =>
       /\ last'.ret = "false"
       /\ nodes' = nodes
       /\ root' = root
       /\ size' = size]_vars

\* A Remove of a key that a set of several keys does not hold.
C10_Witness ==
  /\ last.op = "Remove" /\ last.ret = "false"
  /\ ~Contains(nodes, root, last.key)
  /\ size >= 3

\* The values a fresh iterator at node n yields when Next() is called until
\* Valid() is false (at most fuel of them).
RECURSIVE Walk(_, _, _)
Walk(ns, i, fuel) ==
  IF ~Valid(i) \/ fuel = 0 THEN <<>>
  ELSE <<Value(ns, i)>> \o Walk(ns, [i EXCEPT !.node = NextNode(ns, i)], fuel - 1)

ForwardWalk(ns, r) ==
  Walk(ns, [node |-> BeginNode(ns, r), set |-> TheSet, reverse |-> FALSE], MaxNodes + 1)
ReverseWalk(ns, r) ==
  Walk(ns, [node |-> RBeginNode(ns, r), set |-> TheSet, reverse |-> TRUE], MaxNodes + 1)

Least(S) == CHOOSE k \in S : \A j \in S : compare(k, j) <= 0
Greatest(S) == CHOOSE k \in S : \A j \in S : compare(k, j) >= 0

\* What a Next() step of a positioned iterator must do: move to the nearest
\* key beyond the current one in the iterator's direction, or off the end.
NextStepInOrder ==
  (last'.op = "Next" /\ Valid(it)) =>
    LET v == Value(nodes, it)
        beyond == IF it.reverse
                  THEN {k \in KeySet(nodes, root) : compare(k, v) < 0}
                  ELSE {k \in KeySet(nodes, root) : compare(k, v) > 0}
    IN IF beyond = {}
       THEN ~Valid(it') /\ last'.ret = "false"
       ELSE /\ Valid(it') /\ last'.ret = "true"
            /\ Value(nodes', it') = (IF it.reverse THEN Greatest(beyond) ELSE Least(beyond))

\* C8: for every reachable set, Begin() followed by Next() until the iterator
\* is not Valid() visits every key exactly once in strictly ascending order,
\* and RBegin() followed by Next() visits the reverse sequence; every Next()
\* step moves to the nearest key in the iterator's direction.
C8_IterationInOrder ==
  /\ [](LET f == ForwardWalk(nodes, root)
            b == ReverseWalk(nodes, root)
        IN /\ Len(f) = Cardinality(KeySet(nodes, root))
           /\ Range(f) = KeySet(nodes, root)
           /\ \A i \in 1..(Len(f) - 1) : compare(f[i], f[i + 1]) < 0
           /\ Len(b) = Len(f)
           /\ \A i \in 1..Len(f) : b[i] = f[Len(f) + 1 - i])
  /\ [][NextStepInOrder]_vars

\* A reverse iterator over a set of four or more keys was stepped with Next()
\* past the smallest key.
C8_Witness ==
  /\ last.op = "Next" /\ last.ret = "false"
  /\ it.reverse /\ ~Valid(it)
  /\ size >= 4

\* C9: on an empty set every operation completes without a fault and leaves
\* the set empty: Contains and Remove return false, the four iterator
\* constructors give invalid iterators with no value, and Next() and Prev()
\* on them return false and stay at the sentinel.
C9_EmptySetNoFault ==
  [][(root = NIL /\ last'.op \in {"Remove", "Clear", "Begin", "End", "RBegin", "REnd", "Next", "Prev"}) =>
       /\ \A k \in Keys : ~Contains(nodes, root, k)
       /\ ~fault'
       /\ root' = NIL /\ size' = 0
       /\ ~Valid(it') /\ Value(nodes', it') = NoKey
       /\ last'.op \in {"Remove", "Next", "Prev"} => last'.ret = "false"]_vars

\* C11: Insert(k) of a key the set holds returns false and changes neither
\* Size(), nor the tree's shape, nor a node's key or colour.
C11_InsertPresent ==
  [][(last'.op = "Insert" /\ Contains(nodes, root, last'.key)) =>
       /\ last'.ret = "false"
       /\ nodes' = nodes
       /\ root' = root
       /\ size' = size
       /\ last'.rots = 0 /\ last'.iters = 0]_vars

\* An Insert of a key that a set of several keys holds already.
C11_Witness ==
  /\ last.op = "Insert" /\ last.ret = "false"
  /\ Contains(nodes, root, last.key)
  /\ size >= 3

\* C12: on a non-empty set Prev() on a forward iterator at nil puts it on
\* the greatest key and returns true, and Prev() on a reverse iterator at nil
\* puts it on the least key and returns true.
C12_PrevFromSentinel ==
  [][(last'.op = "Prev" /\ ~Valid(it) /\ root # NIL) =>
       /\ last'.ret = "true"
       /\ Valid(it')
       /\ it'.reverse = it.reverse
       /\ Value(nodes', it') = (IF it.reverse THEN Least(KeySet(nodes, root))
                                ELSE Greatest(KeySet(nodes, root)))]_vars

\* Prev() from nil put a forward iterator on the greatest of several keys.
C12_Witness ==
  /\ last.op = "Prev" /\ last.ret = "true" /\ "sentinel" \in last.cases
  /\ ~it.reverse /\ size >= 3
  /\ Value(nodes, it) = Greatest(KeySet(nodes, root))

\* C13: Next() on an iterator whose node is nil returns false and leaves it
\* at nil, whatever its direction and however it got there.
C13_NextAtSentinelStays ==
  [][(last'.op = "Next" /\ ~Valid(it)) =>
       /\ last'.ret = "false"
       /\ it' = it
       /\ ~Valid(it')]_vars

\* Next() was called on a nil iterator over a non-empty set.
C13_Witness ==
  /\ last.op = "Next" /\ last.ret = "false" /\ "sentinel" \in last.cases
  /\ ~Valid(it) /\ size >= 2

\* C14: Clear() leaves Size() = 0, IsEmpty() and no root, on a set that held
\* keys and on one just cleared alike: the set is in the state NewSet makes,
\* so every later Insert, Contains and Remove acts as on a new set.
C14_ClearResets ==
  [][last'.op = "Clear" =>
       /\ size' = 0 /\ root' = NIL
       /\ nodes' = [n \in Nodes |-> FreeNode]
       /\ \A k \in Keys : ~Contains(nodes', root', k)
       /\ ~fault']_vars

\* A set of several keys was cleared.
C14_Witness ==
  /\ last.op = "Clear" /\ "nonempty" \in last.cases
  /\ IsEmpty /\ root = NIL

\* C15: no Remove dereferences nil in deleteFixup: parent and the sibling w
\* are non-nil wherever the loop reads them, also after Case 1 and Case 3
\* recompute w.
C15_SiblingNeverNil ==
  [][last'.op = "Remove" => (~fault' /\ last'.ret # "panic")]_vars

\* A Remove whose fixup went through Case 1 and Case 3, each recomputing w.
C15_Witness ==
  /\ last.op = "Remove" /\ last.ret = "true"
  /\ \/ {"del1_L", "del3_L"} \subseteq last.cases
     \/ {"del1_R", "del3_R"} \subseteq last.cases

\* The branches that close an iteration of insertFixup, and those of
\* deleteFixup, in the order they were taken.
InsertTrail == SelectSeq(last.trail, LAMBDA c : c \in {"insB_L", "insC_L", "insD_L", "insB_R", "insC_R", "insD_R"})
RemoveTrail == SelectSeq(last.trail, LAMBDA c : c \in {"del2_L", "del4_L", "del2_R", "del4_R"})

\* C16: both fixup loops end.  Each iteration of insertFixup either is the
\* last one (Case C/D, after which the parent of z is Black and the loop
\* condition fails) or moves z two levels towards the root (Case B); each
\* iteration of deleteFixup either is the last one (Case 4, x becomes the
\* root) or moves x one level towards the root (Case 2).
C16_FixupLoopsDescend ==
  /\ last.op = "Insert" =>
       /\ ~fault
       /\ Len(InsertTrail) = last.iters
       /\ \A i \in 1..Len(InsertTrail) :
            InsertTrail[i] \in {"insC_L", "insD_L", "insC_R", "insD_R"} => i = Len(InsertTrail)
       /\ Len(last.steps) = Len(SelectSeq(InsertTrail, LAMBDA c : c \in {"insB_L", "insB_R"}))
       /\ \A i \in 1..Len(last.steps) : last.steps[i][2] = last.steps[i][1] - 2 /\ last.steps[i][2] >= 0
  /\ last.op = "Remove" =>
       /\ ~fault
       /\ Len(RemoveTrail) = last.iters
       /\ \A i \in 1..Len(RemoveTrail) :
            RemoveTrail[i] \in {"del4_L", "del4_R"} => i = Len(RemoveTrail)
       /\ Len(last.steps) = Len(SelectSeq(RemoveTrail, LAMBDA c : c \in {"del2_L", "del2_R"}))
       /\ \A i \in 1..Len(last.steps) : last.steps[i][2] = last.steps[i][1] - 1 /\ last.steps[i][2] >= 0

\* A Remove whose loop moved x up by Case 2 and then, one level higher, ran a
\* second iteration.
C16_Witness ==
  /\ last.op = "Remove"
  /\ last.ret = "true"
  /\ last.iters = 2
  /\ Len(last.steps) >= 1
  /\ last.steps[1][1] >= 2

\* C17: every rotation made by Insert or Remove is applied to a node whose
\* promoted child exists (it does not fault), leaves the in-order key
\* sequence of the tree as it was, and leaves the links consistent: each
\* child names its parent and the root has no parent.
C17_RotationsSound ==
  (last.op \in {"Insert", "Remove"} /\ last.rots > 0) =>
    /\ ~fault
    /\ last.ret # "panic"
    /\ last.rotOK
    /\ LinksConsistent(nodes, root)

\* A Remove that rotated to the left around a node while handing a non-empty
\* subtree over: Case 1 on the left side, where the Red sibling's left child
\* moves under the parent.
C17_Witness ==
  /\ last.op = "Remove"
  /\ last.ret = "true"
  /\ "del1_L" \in last.cases
  /\ last.rots >= 1
  /\ last.rotOK

\* C18: an Insert makes at most two rotations and a Remove at most three.
C18_RotationBound ==
  /\ last.op = "Insert" => last.rots <= 2
  /\ last.op = "Remove" => last.rots <= 3

\* A Remove that made three rotations, and so went through Case 1, Case 3 and
\* Case 4.
C18_Witness ==
  /\ last.op = "Remove"
  /\ last.rots = 3
  /\ \/ {"del1_L", "del3_L", "del4_L"} \subseteq last.cases
     \/ {"del1_R", "del3_R", "del4_R"} \subseteq last.cases

\* The key of node n, for a node a traversal returned.
KeyOf(ns, n) == IF n \in Nodes THEN ns[n].key ELSE NoKey

\* C19: the set not being changed in between, Next() and then Prev() bring a
\* positioned iterator of either direction back to the element it started
\* on, also when the Next() stepped it onto nil; Prev() and then Next() bring
\* it back when the Prev() left it positioned, and leave it at nil otherwise.
C19_StepRoundTrip ==
  [][/\ (last'.op = "Next" /\ Valid(it)) =>
          LET back == PrevNode(nodes', root', it')
          IN back \in Nodes /\ KeyOf(nodes', back) = Value(nodes, it)
     /\ (last'.op = "Prev" /\ Valid(it)) =>
          LET forth == NextOf(nodes', it')
          IN IF Valid(it')
             THEN forth \in Nodes /\ KeyOf(nodes', forth) = Value(nodes, it)
             ELSE forth = NIL]_vars

\* A reverse iterator on the smallest of at least three elements has been
\* stepped onto nil by Next().
C19_Witness ==
  /\ last.op = "Next"
  /\ last.ret = "false"
  /\ "positioned" \in last.cases
  /\ it.reverse
  /\ ~Valid(it)
  /\ size >= 3

\* C20: an Insert under a positioned iterator leaves the iterator's node in
\* the tree with the key it had, and a Next() or Prev() after it moves to the
\* nearest key of the updated set on that side (or to nil when there is
\* none).
C20_InsertKeepsIterators ==
  [][(last'.op = "Insert" /\ Valid(it)) =>
       LET v == Value(nodes, it)
           ks == KeySet(nodes', root')
           above == {k \in ks : compare(k, v) > 0}
           below == {k \in ks : compare(k, v) < 0}
           after == IF it.reverse THEN below ELSE above
           before == IF it.reverse THEN above ELSE below
           nearest(S) == IF S = {} THEN NoKey
                         ELSE IF S = above THEN Least(S) ELSE Greatest(S)
       IN /\ ~fault'
          /\ it'.node \in Subtree(nodes', root')
          /\ it'.reverse = it.reverse
          /\ Value(nodes', it') = v
          /\ KeySet(nodes, root) \subseteq ks
          /\ NextNode(nodes', it') # PANIC
          /\ KeyOf(nodes', NextNode(nodes', it')) = nearest(after)
          /\ PrevNode(nodes', root', it') # PANIC
          /\ KeyOf(nodes', PrevNode(nodes', root', it')) = nearest(before)]_vars

\* An Insert that recoloured, moved up and rotated under a positioned
\* iterator, the new key being the iterator's next element.
C20_Witness ==
  /\ last.op = "Insert"
  /\ last.ret = "true"
  /\ Valid(it)
  /\ last.iters >= 2
  /\ last.rots >= 1
  /\ KeyOf(nodes, NextNode(nodes, it)) = last.key

====
